---- MODULE Spec2Model ----
(***************************************************************************)
(* FAIR risk calculator: FAIRCalculator (fair_calculator.py) and the two   *)
(* Flask handlers that call it (app.py).                                   *)
(*                                                                         *)
(* Numbers.  Python floats are modelled by exact rationals <<n, d>> with   *)
(* d > 0 in lowest terms, so every product, sum and comparison below is    *)
(* the real-number one; the inputs are chosen away from the magnitudes     *)
(* where IEEE doubles overflow.  round(x, k) is round-half-to-even on the  *)
(* k-th decimal.                                                           *)
(***************************************************************************)
EXTENDS Integers, Sequences, FiniteSets, TLC

(***************************************************************************)
(* Rational arithmetic (the float operators of the source)                 *)
(***************************************************************************)
Abs(i) == IF i < 0 THEN -i ELSE i

RECURSIVE Gcd(_, _)
Gcd(a, b) == IF b = 0 THEN a ELSE Gcd(b, a % b)

\* the rational n/d (d # 0) in lowest terms with a positive denominator
Rat(n, d) ==
    LET g == Gcd(Abs(n), Abs(d))
        s == IF d < 0 THEN -1 ELSE 1
    IN  <<(s * n) \div g, (s * d) \div g>>

Num(i) == <<i, 1>>

Zero == Num(0)

\* x * y, cancelling across the fraction bars before multiplying
RMul(x, y) ==
    LET g1 == Gcd(Abs(x[1]), y[2])
        g2 == Gcd(Abs(y[1]), x[2])
    IN  Rat((x[1] \div g1) * (y[1] \div g2), (x[2] \div g2) * (y[2] \div g1))

\* x / y for y # 0
RDiv(x, y) == RMul(x, Rat(y[2], y[1]))

RAdd(x, y) ==
    LET g == Gcd(x[2], y[2])
    IN  Rat(x[1] * (y[2] \div g) + y[1] * (x[2] \div g), x[2] * (y[2] \div g))

RNeg(x) == <<-x[1], x[2]>>

RSub(x, y) == RAdd(x, RNeg(y))

\* x < y, decided on the difference so that no cross product is formed
RLt(x, y) == RSub(x, y)[1] < 0

RLe(x, y) == RSub(x, y)[1] <= 0

RECURSIVE Pow10(_)
Pow10(k) == IF k = 0 THEN 1 ELSE 10 * Pow10(k - 1)

\* Python's round(x, k): the nearest multiple of 10^-k, a tie going to the
\* even one.  The integer part is split off first to keep the scaled
\* numerator small.
Round(x, k) ==
    LET p    == Pow10(k)
        ip   == x[1] \div x[2]
        fr   == x[1] % x[2]
        q    == (fr * p) \div x[2]
        r    == (fr * p) % x[2]
        down == ip * p + q
        m    == IF 2 * r < x[2] THEN down
                ELSE IF 2 * r > x[2] THEN down + 1
                ELSE IF down % 2 = 0 THEN down ELSE down + 1
    IN  Rat(m, p)

(***************************************************************************)
(* FAIRCalculator: the formula evaluator                                   *)
(***************************************************************************)
\* FAIRCalculator.__init__: the four fields of a calculator object
FAIRCalculator(asset_value, threat_event_frequency, vulnerability, loss_magnitude) ==
    [asset_value            |-> asset_value,
     threat_event_frequency |-> threat_event_frequency,
     vulnerability          |-> vulnerability,
     loss_magnitude         |-> loss_magnitude]

calculate_loss_event_frequency(self) ==
    RMul(self.threat_event_frequency, self.vulnerability)

\* mutant: the vulnerability left out of the product
annual_loss_expectancy_without_vulnerability(self) ==
    RMul(self.threat_event_frequency, self.loss_magnitude)

calculate_annual_loss_expectancy(self) ==
    LET lef == calculate_loss_event_frequency(self)
    IN  RMul(lef, self.loss_magnitude)

calculate_single_loss_expectancy(self) == self.loss_magnitude

LowLimit == 10000

MediumLimit == 50000

HighLimit == 200000

\* mutant: the limits taken inclusively (ale <= limit)
calculate_risk_level_inclusive(ale) ==
    IF RLe(ale, Num(LowLimit))
    THEN [level |-> "Low", color |-> "green", priority |-> "P4"]
    ELSE IF RLe(ale, Num(MediumLimit))
    THEN [level |-> "Medium", color |-> "yellow", priority |-> "P3"]
    ELSE IF RLe(ale, Num(HighLimit))
    THEN [level |-> "High", color |-> "orange", priority |-> "P2"]
    ELSE [level |-> "Critical", color |-> "red", priority |-> "P1"]

\* mutant: the last limit mistyped as 20,000
calculate_risk_level_mistyped_limit(ale) ==
    IF RLt(ale, Num(LowLimit))
    THEN [level |-> "Low", color |-> "green", priority |-> "P4"]
    ELSE IF RLt(ale, Num(MediumLimit))
    THEN [level |-> "Medium", color |-> "yellow", priority |-> "P3"]
    ELSE IF RLt(ale, Num(20000))
    THEN [level |-> "High", color |-> "orange", priority |-> "P2"]
    ELSE [level |-> "Critical", color |-> "red", priority |-> "P1"]

calculate_risk_level(ale) ==
    IF RLt(ale, Num(LowLimit))
    THEN [level |-> "Low", color |-> "green", priority |-> "P4"]
    ELSE IF RLt(ale, Num(MediumLimit))
    THEN [level |-> "Medium", color |-> "yellow", priority |-> "P3"]
    ELSE IF RLt(ale, Num(HighLimit))
    THEN [level |-> "High", color |-> "orange", priority |-> "P2"]
    ELSE [level |-> "Critical", color |-> "red", priority |-> "P1"]

\* FAIRCalculator.calculate: the returned dictionary
calculate(self) ==
    LET lef  == calculate_loss_event_frequency(self)
        ale  == calculate_annual_loss_expectancy(self)
        sle  == calculate_single_loss_expectancy(self)
        risk_level == calculate_risk_level(ale)
        risk_exposure_pct ==
            IF self.asset_value[1] > 0
            THEN RMul(RDiv(ale, self.asset_value), Num(100))
            ELSE Zero
    IN  [asset_value              |-> Round(self.asset_value, 2),
         threat_event_frequency   |-> Round(self.threat_event_frequency, 2),
         vulnerability            |-> Round(self.vulnerability, 3),
         loss_magnitude           |-> Round(self.loss_magnitude, 2),
         loss_event_frequency     |-> Round(lef, 3),
         single_loss_expectancy   |-> Round(sle, 2),
         annual_loss_expectancy   |-> Round(ale, 2),
         risk_level               |-> risk_level.level,
         risk_color               |-> risk_level.color,
         risk_priority            |-> risk_level.priority,
         risk_exposure_percentage |-> Round(risk_exposure_pct, 2)]

(***************************************************************************)
(* Exact square roots: natural numbers too large for one machine integer   *)
(* are little-endian sequences of base-1000 digits.  Used by np.std only.  *)
(***************************************************************************)
RECURSIVE BigNat(_)
BigNat(n) == IF n = 0 THEN <<>> ELSE <<n % 1000>> \o BigNat(n \div 1000)

RECURSIVE BigAdd(_, _, _)
BigAdd(a, b, carry) ==
    IF a = <<>> /\ b = <<>>
    THEN BigNat(carry)
    ELSE LET x == (IF a = <<>> THEN 0 ELSE Head(a))
                  + (IF b = <<>> THEN 0 ELSE Head(b)) + carry
         IN  <<x % 1000>> \o BigAdd(IF a = <<>> THEN a ELSE Tail(a),
                                    IF b = <<>> THEN b ELSE Tail(b),
                                    x \div 1000)

RECURSIVE BigMulDigit(_, _, _)
BigMulDigit(a, k, carry) ==
    IF a = <<>>
    THEN BigNat(carry)
    ELSE LET x == Head(a) * k + carry
         IN  <<x % 1000>> \o BigMulDigit(Tail(a), k, x \div 1000)

RECURSIVE BigMul(_, _)
BigMul(a, b) ==
    IF b = <<>>
    THEN <<>>
    ELSE BigAdd(BigMulDigit(a, Head(b), 0), <<0>> \o BigMul(a, Tail(b)), 0)

RECURSIVE BigTrim(_)
BigTrim(a) ==
    IF a # <<>> /\ a[Len(a)] = 0 THEN BigTrim(SubSeq(a, 1, Len(a) - 1)) ELSE a

\* -1, 0 or 1 as a < b, a = b or a > b (both trimmed, of equal length)
RECURSIVE BigCmpDigits(_, _)
BigCmpDigits(a, b) ==
    IF a = <<>> THEN 0
    ELSE IF a[Len(a)] < b[Len(b)] THEN -1
    ELSE IF a[Len(a)] > b[Len(b)] THEN 1
    ELSE BigCmpDigits(SubSeq(a, 1, Len(a) - 1), SubSeq(b, 1, Len(b) - 1))

BigCmp(a, b) ==
    LET x == BigTrim(a)
        y == BigTrim(b)
    IN  IF Len(x) < Len(y) THEN -1
        ELSE IF Len(x) > Len(y) THEN 1
        ELSE BigCmpDigits(x, y)

\* (2s - 1)^2 * k compared with 4 * v: the sign of (s - 1/2) - sqrt(v / k)
HalfBelow(s, k, v) ==
    LET o == BigNat(2 * s - 1)
    IN  BigCmp(BigMul(BigMul(o, o), k), BigMulDigit(v, 4, 0))

\* the largest s in lo..hi-1 with s - 1/2 <= sqrt(v / k), by bisection;
\* lo satisfies it and hi does not
RECURSIVE SqrtBisect(_, _, _, _)
SqrtBisect(lo, hi, k, v) ==
    IF hi - lo <= 1
    THEN lo
    ELSE LET mid == (lo + hi) \div 2
         IN  IF HalfBelow(mid, k, v) <= 0
             THEN SqrtBisect(mid, hi, k, v)
             ELSE SqrtBisect(lo, mid, k, v)

\* sqrt(v / k) rounded to the nearest integer, a tie going to the even one;
\* hi is any integer above sqrt(v / k) + 1/2
RoundSqrt(v, k, hi) ==
    LET s == SqrtBisect(0, hi, k, v)
    IN  IF s > 0 /\ s % 2 = 1 /\ HalfBelow(s, k, v) = 0 THEN s - 1 ELSE s

(***************************************************************************)
(* numpy reductions over a non-empty sequence of rationals                 *)
(***************************************************************************)
RECURSIVE SeqSum(_)
SeqSum(a) == IF a = <<>> THEN Zero ELSE RAdd(Head(a), SeqSum(Tail(a)))

Sorted(a) == SortSeq(a, LAMBDA x, y : RLt(x, y))

np_mean(a) == RDiv(SeqSum(a), Num(Len(a)))

np_median(a) ==
    LET s == Sorted(a)
        n == Len(a)
    IN  IF n % 2 = 1
        THEN s[(n + 1) \div 2]
        ELSE RDiv(RAdd(s[n \div 2], s[n \div 2 + 1]), Num(2))

np_min(a) == Sorted(a)[1]

np_max(a) == Sorted(a)[Len(a)]

\* mutant: the interpolation done on the array as given, not sorted
np_percentile_unsorted(a, q) ==
    LET n   == Len(a)
        vi  == RMul(RDiv(q, Num(100)), Num(n - 1))
        lo  == vi[1] \div vi[2]
        g   == Rat(vi[1] % vi[2], vi[2])
        hi  == IF lo + 1 < n THEN lo + 1 ELSE lo
    IN  RAdd(a[lo + 1], RMul(g, RSub(a[hi + 1], a[lo + 1])))

\* np.percentile(a, q), method 'linear': the value at the virtual index
\* q / 100 * (n - 1) of the sorted array, interpolated between neighbours
np_percentile(a, q) ==
    LET s   == Sorted(a)
        n   == Len(a)
        vi  == RMul(RDiv(q, Num(100)), Num(n - 1))
        lo  == vi[1] \div vi[2]
        g   == Rat(vi[1] % vi[2], vi[2])
        hi  == IF lo + 1 < n THEN lo + 1 ELSE lo
    IN  RAdd(s[lo + 1], RMul(g, RSub(s[hi + 1], s[lo + 1])))

RECURSIVE Lcm(_)
Lcm(a) ==
    IF a = <<>> THEN 1
    ELSE LET l == Lcm(Tail(a)) IN (Head(a)[2] \div Gcd(Head(a)[2], l)) * l

RECURSIVE SumSquares(_)
SumSquares(d) ==
    IF d = <<>> THEN <<>>
    ELSE BigAdd(BigMul(BigNat(Head(d)), BigNat(Head(d))), SumSquares(Tail(d)), 0)

\* round(np.std(a), 2): the population standard deviation
\* sqrt(mean(|a - mean(a)|^2)), to the cent.  With a[i] = m[i] / D and
\* S = sum m, a[i] - mean = (n*m[i] - S) / (n*D), so that
\* 100 * std = sqrt(10^4 * sum (n*m[i] - S)^2 / (n^3 * D^2)).
np_std_round2(a) ==
    LET n   == Len(a)
        D   == Lcm(a)
        m   == [i \in 1..n |-> a[i][1] * (D \div a[i][2])]
        S   == SeqSum([i \in 1..n |-> Num(m[i])])[1]
        dev == [i \in 1..n |-> Abs(n * m[i] - S)]
        v   == BigMul(BigNat(10000), SumSquares(dev))
        k   == BigMul(BigNat(n * n * n), BigNat(D * D))
        rng == RSub(np_max(a), np_min(a))
        hi  == 100 * (rng[1] \div rng[2] + 1) + 1
    IN  Rat(RoundSqrt(v, k, hi), 100)

(***************************************************************************)
(* The process-wide generator behind np.random.uniform.  Its state is the  *)
(* stream it will produce (a cyclic tape of values in [0, 1)) and the      *)
(* position reached in it: the outputs are a function of the state, and    *)
(* every draw advances the state for every later caller.                   *)
(***************************************************************************)
random_sample(g, i) == g.tape[((g.pos + i) % Len(g.tape)) + 1]

\* mutant: the width of the interval taken to be high
uniform_value_scaled_by_high(low, high, u) == RAdd(low, RMul(high, u))

\* one value of uniform(low, high): low + (high - low) * u
uniform_value(low, high, u) == RAdd(low, RMul(RSub(high, low), u))

\* np.random.uniform(low, high, size) on generator state g: the array, the
\* state it leaves, or ValueError for a negative size
uniform(g, low, high, size) ==
    IF size < 0
    THEN [raised |-> TRUE, out |-> <<>>, rng |-> g]
    ELSE [raised |-> FALSE,
          out    |-> [i \in 1..size |->
                        uniform_value(low, high, random_sample(g, i - 1))],
          rng    |-> [g EXCEPT !.pos = (g.pos + size) % Len(g.tape)]]

(***************************************************************************)
(* FAIRCalculator.monte_carlo_simulation                                   *)
(***************************************************************************)
\* a * b element-wise
ArrMul(a, b) == [i \in 1..Len(a) |-> RMul(a[i], b[i])]

\* mutant: the lower limits of the buckets taken exclusively
risk_distribution_exclusive(ale_samples) ==
    LET a == ale_samples
        I == DOMAIN ale_samples
    IN  [low      |-> Cardinality({i \in I : RLt(a[i], Num(10000))}),
         medium   |-> Cardinality({i \in I : RLt(Num(10000), a[i]) /\ RLt(a[i], Num(50000))}),
         high     |-> Cardinality({i \in I : RLt(Num(50000), a[i]) /\ RLt(a[i], Num(200000))}),
         critical |-> Cardinality({i \in I : RLt(Num(200000), a[i])})]

\* the four np.sum(...) counts over the outcome vector
risk_distribution(ale_samples) ==
    LET a == ale_samples
        I == DOMAIN ale_samples
    IN  [low      |-> Cardinality({i \in I : RLt(a[i], Num(10000))}),
         medium   |-> Cardinality({i \in I : RLe(Num(10000), a[i]) /\ RLt(a[i], Num(50000))}),
         high     |-> Cardinality({i \in I : RLe(Num(50000), a[i]) /\ RLt(a[i], Num(200000))}),
         critical |-> Cardinality({i \in I : RLe(Num(200000), a[i])})]

PercentileKeys == {"10th", "25th", "50th", "75th", "90th", "95th", "99th"}

PercentileOf(k) ==
    CASE k = "10th" -> Num(10) [] k = "25th" -> Num(25) [] k = "50th" -> Num(50)
      [] k = "75th" -> Num(75) [] k = "90th" -> Num(90) [] k = "95th" -> Num(95)
      [] k = "99th" -> Num(99)

\* the statistics and the returned dictionary, from the three sample arrays.
\* On empty arrays np.mean, np.median and np.std return nan (with a warning)
\* and np.min raises ValueError: the failure comes after three statistics.
reduce_samples(tef_samples, vuln_samples, loss_samples, iterations) ==
    LET lef_samples == ArrMul(tef_samples, vuln_samples)
        ale_samples == ArrMul(lef_samples, loss_samples)
    IN  IF Len(ale_samples) = 0
        THEN [raised |-> TRUE, raised_at |-> "statistics", result |-> <<>>]
        ELSE [raised |-> FALSE, raised_at |-> "",
              result |-> <<
                [iterations  |-> iterations,
                 mean_ale    |-> Round(np_mean(ale_samples), 2),
                 median_ale  |-> Round(np_median(ale_samples), 2),
                 std_dev     |-> np_std_round2(ale_samples),
                 min_ale     |-> Round(np_min(ale_samples), 2),
                 max_ale     |-> Round(np_max(ale_samples), 2),
                 percentiles |-> [k \in PercentileKeys |->
                     Round(np_percentile(ale_samples, PercentileOf(k)), 2)],
                 risk_distribution |-> risk_distribution(ale_samples),
                 confidence_95 |->
                    [lower |-> Round(np_percentile(ale_samples, Rat(5, 2)), 2),
                     upper |-> Round(np_percentile(ale_samples, Rat(195, 2)), 2)]]
              >>]

\* what the call returns or raises once the three arrays are drawn, and the
\* generator state g it leaves
simulation_outcome(r, g) ==
    [raised |-> r.raised, raised_at |-> r.raised_at, result |-> r.result, rng |-> g]

\* the whole call on generator state g.  A negative size fails in the first
\* np.random.uniform call, before the generator has moved.
monte_carlo_simulation(g, tef_range, vuln_range, loss_range, iterations) ==
    IF uniform(g, tef_range[1], tef_range[2], iterations).raised
    THEN [raised |-> TRUE, raised_at |-> "sampling", result |-> <<>>, rng |-> g]
    ELSE LET t == uniform(g, tef_range[1], tef_range[2], iterations)
             v == uniform(t.rng, vuln_range[1], vuln_range[2], iterations)
             l == uniform(v.rng, loss_range[1], loss_range[2], iterations)
         IN  simulation_outcome(reduce_samples(t.out, v.out, l.out, iterations), l.rng)

(***************************************************************************)
(* app.py: the two handlers.  A response is its HTTP status and its body   *)
(* (<<>> for an error body, <<results>> otherwise).                        *)
(***************************************************************************)
\* mutant: only negative asset values refused
asset_value_negative(asset_value) == asset_value[1] < 0

\* app.py line 27: the only input validation of /api/calculate
asset_value_rejected(asset_value) == asset_value[1] <= 0

calculate_risk(data) ==
    IF asset_value_rejected(data.asset_value)
    THEN [status |-> 400, body |-> <<>>]
    ELSE LET calculator == FAIRCalculator(data.asset_value,
                                          data.threat_event_frequency,
                                          data.vulnerability,
                                          data.loss_magnitude)
         IN  [status |-> 200, body |-> <<calculate(calculator)>>]

\* the response of /api/monte-carlo to what the simulation returned or raised:
\* any exception becomes a 500
monte_carlo_response(sim) ==
    IF sim.raised
    THEN [status |-> 500, body |-> <<>>, raised_at |-> sim.raised_at, rng |-> sim.rng]
    ELSE [status |-> 200, body |-> sim.result, raised_at |-> "", rng |-> sim.rng]

\* /api/monte-carlo on generator state g; no input is validated
run_monte_carlo(g, data) ==
    monte_carlo_response(
        monte_carlo_simulation(g,
            <<data.tef_min, data.tef_max>>,
            <<data.vuln_min, data.vuln_max>>,
            <<data.loss_min, data.loss_max>>,
            data.iterations))

(***************************************************************************)
(* State                                                                   *)
(***************************************************************************)
VARIABLES
    ale_arg,    \* the argument of the last calculate_risk_level call
    level_ret,  \* what that call returned
    calc,       \* the last /api/calculate exchange: request and response
    rng,        \* the state of the process-wide np.random generator
    sim,        \* the last /api/monte-carlo exchange: request and response
    thr         \* the request threads of the server, each serving /api/monte-carlo

vars == <<ale_arg, level_ret, calc, rng, sim, thr>>

(***************************************************************************)
(* Bounds and the inputs drawn                                             *)
(***************************************************************************)
MaxAleStep == 100

MaxIter == 3

TapeLen == 5

\* the six boundary values of the risk levels and a grid of 2,500 steps
AleInputs ==
    {Rat(999999, 100), Num(10000), Rat(4999999, 100), Num(50000),
     Rat(19999999, 100), Num(200000)}
    \cup {Num(2500 * k) : k \in 0..MaxAleStep}

NoLevel == [level |-> "", color |-> "", priority |-> ""]

CalcData(asset_value, threat_event_frequency, vulnerability, loss_magnitude) ==
    [asset_value |-> asset_value, threat_event_frequency |-> threat_event_frequency,
     vulnerability |-> vulnerability, loss_magnitude |-> loss_magnitude]

\* asset values on both sides of the handler's check, and loss magnitudes
\* on both sides of every risk-level limit
GridRequests ==
    {CalcData(a, t, v, l) :
        a \in {Num(-1), Zero, Num(1000000)},
        t \in {Zero, Num(1), Num(2), Num(6)},
        v \in {Rat(3, 10), Rat(1, 2), Num(1)},
        l \in {Rat(999999, 100), Num(10000), Rat(4999999, 100), Num(50000),
               Num(75000), Rat(19999999, 100), Num(200000)}}

\* vulnerabilities with four decimals: 0.3334 and 0.0004
FourDecimalRequests ==
    {CalcData(Num(1000000), t, v, l) :
        t \in {Num(1), Num(6)},
        v \in {Rat(1667, 5000), Rat(1, 2500)},
        l \in {Num(75000), Num(100000)}}

\* loss magnitudes with three decimals, 0.004 below a limit: 9,999.996,
\* 49,999.996 and 199,999.996
ThreeDecimalRequests ==
    {CalcData(Num(1000000), t, v, l) :
        t \in {Num(1), Num(2)},
        v \in {Rat(1, 2), Num(1)},
        l \in {Rat(2499999, 250), Rat(12499999, 250), Rat(49999999, 250)}}

CalcRequests == GridRequests \cup FourDecimalRequests \cup ThreeDecimalRequests

NoCalcRequest ==
    [asset_value |-> Zero, threat_event_frequency |-> Zero,
     vulnerability |-> Zero, loss_magnitude |-> Zero]

\* generator outputs, in [0, 1)
USet == {Zero, Rat(1, 2), Rat(3, 4)}

Generators == [tape : [1..TapeLen -> USet], pos : {0}]

\* the generator states of the concurrent runs
ConcGenerators == [tape : [1..TapeLen -> {Zero, Rat(1, 2)}], pos : {0}]

\* the ranges requested: all three constant (5 x 0.5 x 20,000 and
\* 1 x 0.1 x 10,000), the handler's defaults, the defaults with tef_min > tef_max, and one
\* sampled factor with two constant ones
RangeTriples ==
    {<<<<Num(5), Num(5)>>, <<Rat(1, 2), Rat(1, 2)>>, <<Num(20000), Num(20000)>>>>,
     <<<<Num(1), Num(1)>>, <<Rat(1, 10), Rat(1, 10)>>, <<Num(10000), Num(10000)>>>>,
     <<<<Num(1), Num(10)>>, <<Rat(1, 10), Rat(9, 10)>>, <<Num(10000), Num(100000)>>>>,
     <<<<Num(10), Num(1)>>, <<Rat(1, 10), Rat(9, 10)>>, <<Num(10000), Num(100000)>>>>,
     <<<<Num(1), Num(10)>>, <<Rat(1, 2), Rat(1, 2)>>, <<Num(20000), Num(20000)>>>>}

SimData(tef_range, vuln_range, loss_range, iterations) ==
    [asset_value |-> Zero,
     tef_min |-> tef_range[1], tef_max |-> tef_range[2],
     vuln_min |-> vuln_range[1], vuln_max |-> vuln_range[2],
     loss_min |-> loss_range[1], loss_max |-> loss_range[2],
     iterations |-> iterations]

SimRequests ==
    {SimData(r[1], r[2], r[3], n) : r \in RangeTriples, n \in -1..MaxIter}

NoSimRequest == SimData(<<Zero, Zero>>, <<Zero, Zero>>, <<Zero, Zero>>, 0)

Threads == {1, 2}

\* the requests of the concurrent runs: the handler's default ranges and a
\* constant one
ConcRequests ==
    {SimData(<<Num(1), Num(10)>>, <<Rat(1, 2), Rat(1, 2)>>, <<Num(20000), Num(20000)>>, 1),
     SimData(<<Num(5), Num(5)>>, <<Rat(1, 2), Rat(1, 2)>>, <<Num(20000), Num(20000)>>, 1),
     SimData(<<Num(1), Num(10)>>, <<Rat(1, 10), Rat(9, 10)>>, <<Num(10000), Num(100000)>>, 2)}

IdleThread ==
    [pc |-> "idle", data |-> NoSimRequest, start |-> 0,
     tef |-> <<>>, vuln |-> <<>>, loss |-> <<>>, status |-> 0, body |-> <<>>]

(***************************************************************************)
(* Initial states                                                          *)
(***************************************************************************)
Idle ==
    /\ ale_arg = Zero
    /\ level_ret = NoLevel
    /\ calc = [called |-> FALSE, data |-> NoCalcRequest, status |-> 0, body |-> <<>>]
    /\ sim = [called |-> FALSE, data |-> NoSimRequest, status |-> 0,
              body |-> <<>>, raised_at |-> ""]
    /\ thr = [t \in Threads |-> IdleThread]

\* the server with any generator state
Init ==
    /\ Idle
    /\ rng \in Generators

\* the server before two concurrent requests
InitConc ==
    /\ Idle
    /\ rng \in ConcGenerators

\* the server with one generator state, for the calls that draw nothing
InitSeeded ==
    /\ Idle
    /\ rng = [tape |-> [i \in 1..TapeLen |-> Zero], pos |-> 0]

(***************************************************************************)
(* Actions                                                                 *)
(***************************************************************************)
\* a call of FAIRCalculator.calculate_risk_level
RiskLevel(ale) ==
    /\ ale_arg' = ale
    /\ level_ret' = calculate_risk_level(ale)
    /\ UNCHANGED <<calc, rng, sim, thr>>

\* POST /api/calculate
CalculateRisk(data) ==
    /\ \E r \in {calculate_risk(data)} :
          calc' = [called |-> TRUE, data |-> data, status |-> r.status, body |-> r.body]
    /\ UNCHANGED <<ale_arg, level_ret, rng, sim, thr>>

\* POST /api/monte-carlo, served alone on the generator state drawn by Init
RunMonteCarlo(data) ==
    /\ ~sim.called
    /\ \E r \in {run_monte_carlo(rng, data)} :
          /\ sim' = [called |-> TRUE, data |-> data, status |-> r.status,
                     body |-> r.body, raised_at |-> r.raised_at]
          /\ rng' = r.rng
    /\ UNCHANGED <<ale_arg, level_ret, calc, thr>>

\* POST /api/monte-carlo served by thread t (the server starts a thread per
\* request), one step per call that takes the generator's lock: the thread
\* takes the request, ...
Accept(t, data) ==
    /\ thr[t].pc = "idle"
    /\ thr' = [thr EXCEPT ![t] = [IdleThread EXCEPT !.pc = "tef", !.data = data,
                                                    !.start = rng.pos]]
    /\ UNCHANGED <<ale_arg, level_ret, calc, rng, sim>>

\* ... draws tef_samples (line 111), ...
DrawTef(t) ==
    /\ thr[t].pc = "tef"
    /\ LET d == thr[t].data
           u == uniform(rng, d.tef_min, d.tef_max, d.iterations)
       IN  /\ rng' = u.rng
           /\ thr' = [thr EXCEPT ![t] =
                        IF u.raised
                        THEN [@ EXCEPT !.pc = "done", !.status = 500]
                        ELSE [@ EXCEPT !.pc = "vuln", !.tef = u.out]]
    /\ UNCHANGED <<ale_arg, level_ret, calc, sim>>

\* ... vuln_samples (line 112), ...
DrawVuln(t) ==
    /\ thr[t].pc = "vuln"
    /\ LET d == thr[t].data
           u == uniform(rng, d.vuln_min, d.vuln_max, d.iterations)
       IN  /\ rng' = u.rng
           /\ thr' = [thr EXCEPT ![t] = [@ EXCEPT !.pc = "loss", !.vuln = u.out]]
    /\ UNCHANGED <<ale_arg, level_ret, calc, sim>>

\* ... loss_samples (line 113), ...
DrawLoss(t) ==
    /\ thr[t].pc = "loss"
    /\ LET d == thr[t].data
           u == uniform(rng, d.loss_min, d.loss_max, d.iterations)
       IN  /\ rng' = u.rng
           /\ thr' = [thr EXCEPT ![t] = [@ EXCEPT !.pc = "reduce", !.loss = u.out]]
    /\ UNCHANGED <<ale_arg, level_ret, calc, sim>>

\* ... and reduces its own arrays to the response (lines 115-161)
Respond(t) ==
    /\ thr[t].pc = "reduce"
    /\ \E r \in {reduce_samples(thr[t].tef, thr[t].vuln, thr[t].loss,
                                 thr[t].data.iterations)} :
           thr' = [thr EXCEPT ![t] =
                     [@ EXCEPT !.pc = "done",
                               !.status = IF r.raised THEN 500 ELSE 200,
                               !.body = r.result]]
    /\ UNCHANGED <<ale_arg, level_ret, calc, rng, sim>>

(***************************************************************************)
(* Specifications                                                          *)
(***************************************************************************)
\* calculate_risk_level as a function of its argument
NextLevel == \E ale \in AleInputs : RiskLevel(ale)

SpecLevel == InitSeeded /\ [][NextLevel]_vars

\* the /api/calculate handler
NextCalc == \E data \in CalcRequests : CalculateRisk(data)

SpecCalc == InitSeeded /\ [][NextCalc]_vars

\* one /api/monte-carlo request on any generator state
NextSim == \E data \in SimRequests : RunMonteCarlo(data)

SpecSim == Init /\ [][NextSim]_vars

\* two server threads serving /api/monte-carlo requests on the one generator
NextConc ==
    \E t \in Threads :
        \/ \E data \in ConcRequests : Accept(t, data)
        \/ DrawTef(t)
        \/ DrawVuln(t)
        \/ DrawLoss(t)
        \/ Respond(t)

SpecConc == InitConc /\ [][NextConc]_vars

Next == NextLevel \/ NextCalc \/ NextSim \/ NextConc

Spec == Init /\ [][Next]_vars

(***************************************************************************)
(* Properties                                                              *)
(***************************************************************************)
\* x < c for a rational x and an integer c
Below(x, c) == x[1] < c * x[2]

Low == [level |-> "Low", color |-> "green", priority |-> "P4"]

Medium == [level |-> "Medium", color |-> "yellow", priority |-> "P3"]

High == [level |-> "High", color |-> "orange", priority |-> "P2"]

Critical == [level |-> "Critical", color |-> "red", priority |-> "P1"]

\* the level of the half-open interval that holds x
LevelOfInterval(x) ==
    IF Below(x, 10000) THEN Low
    ELSE IF Below(x, 50000) THEN Medium
    ELSE IF Below(x, 200000) THEN High
    ELSE Critical

\* the three risk fields of a returned record
LevelFields(r) ==
    [level |-> r.risk_level, color |-> r.risk_color, priority |-> r.risk_priority]

\* C1: calculate_risk_level returns Low/green/P4 below 10,000, Medium/yellow/P3
\* on [10,000, 50,000), High/orange/P2 on [50,000, 200,000) and
\* Critical/red/P1 from 200,000 on; the six boundary values fall as listed.
C1_LevelThresholds ==
    level_ret # NoLevel =>
        /\ level_ret = LevelOfInterval(ale_arg)
        /\ ale_arg = Rat(999999, 100) => level_ret = Low
        /\ ale_arg = Num(10000) => level_ret = Medium
        /\ ale_arg = Rat(4999999, 100) => level_ret = Medium
        /\ ale_arg = Num(50000) => level_ret = High
        /\ ale_arg = Rat(19999999, 100) => level_ret = High
        /\ ale_arg = Num(200000) => level_ret = Critical

\* C1 witness: the call on exactly 10,000 has returned Medium
C1_Witness == ale_arg = Num(10000) /\ level_ret = Medium

\* C3: a request with asset_value <= 0 is answered with an error and no
\* record of risk metrics.
C3_NonPositiveAssetRejected ==
    (calc.called /\ calc.data.asset_value[1] <= 0) =>
        (calc.status = 400 /\ calc.body = <<>>)

\* C3 witness: asset_value = 0 was posted and refused
C3_Witness ==
    calc.called /\ calc.data.asset_value = Zero /\ calc.status = 400

\* C5 as stated: the record's annual_loss_expectancy is the record's
\* loss_event_frequency times the record's loss_magnitude (to the cent).
C5_RecordProduct ==
    calc.status = 200 =>
        LET r    == calc.body[1]
            diff == RSub(r.annual_loss_expectancy,
                         RMul(r.loss_event_frequency, r.loss_magnitude))
        IN  /\ RLe(diff, Rat(1, 100))
            /\ RLe(RNeg(diff), Rat(1, 100))

\* C5 amended: annual_loss_expectancy is tef x vulnerability x loss_magnitude
\* of the request rounded to 2 decimals, and loss_event_frequency is
\* tef x vulnerability rounded to 3 decimals.
C5_AleOfInputs ==
    calc.status = 200 =>
        LET r   == calc.body[1]
            d   == calc.data
            lef == RMul(d.threat_event_frequency, d.vulnerability)
        IN  /\ r.loss_event_frequency = Round(lef, 3)
            /\ r.annual_loss_expectancy = Round(RMul(lef, d.loss_magnitude), 2)

\* C5 witness: 1,000,000 / 6 / 0.3 / 75,000 gave LEF 1.8 and ALE 135,000
C5_Witness ==
    /\ calc.status = 200
    /\ calc.data = CalcData(Num(1000000), Num(6), Rat(3, 10), Num(75000))
    /\ calc.body[1].loss_event_frequency = Rat(9, 5)
    /\ calc.body[1].annual_loss_expectancy = Num(135000)

\* C10 as stated: the record's risk fields are the classification of the
\* record's annual_loss_expectancy field.
C10_LevelOfRecordAle ==
    calc.status = 200 =>
        LevelFields(calc.body[1]) = LevelOfInterval(calc.body[1].annual_loss_expectancy)

\* C10 amended: the risk fields are the classification of the unrounded
\* tef x vulnerability x loss_magnitude; the record's annual_loss_expectancy
\* is that value rounded to 2 decimals, so the fields are the classification
\* of the record's annual_loss_expectancy unless it is exactly 10,000, 50,000
\* or 200,000, and then they are that level or the one below.
C10_LevelOfUnroundedAle ==
    calc.status = 200 =>
        LET r   == calc.body[1]
            d   == calc.data
            ale == RMul(RMul(d.threat_event_frequency, d.vulnerability), d.loss_magnitude)
            rec == r.annual_loss_expectancy
        IN  /\ LevelFields(r) = LevelOfInterval(ale)
            /\ rec \notin {Num(10000), Num(50000), Num(200000)}
                  => LevelFields(r) = LevelOfInterval(rec)
            /\ rec = Num(10000) => LevelFields(r) \in {Low, Medium}
            /\ rec = Num(50000) => LevelFields(r) \in {Medium, High}
            /\ rec = Num(200000) => LevelFields(r) \in {High, Critical}

\* C10 witness: an ALE of 9,999.996 is reported as 10,000 with level Low
C10_Witness ==
    /\ calc.status = 200
    /\ calc.data = CalcData(Num(1000000), Num(1), Num(1), Rat(2499999, 250))
    /\ calc.body[1].annual_loss_expectancy = Num(10000)
    /\ calc.body[1].risk_level = "Low"

\* C2: in every returned simulation the four bucket counts sum to the
\* iteration count.
C2_BucketsSumToN ==
    sim.status = 200 =>
        LET d == sim.body[1].risk_distribution
        IN  /\ d.low + d.medium + d.high + d.critical = sim.data.iterations
            /\ sim.body[1].iterations = sim.data.iterations

\* C2 witness: a returned simulation of two or more iterations with samples
\* in the first and in the last bucket
C2_Witness ==
    /\ sim.status = 200
    /\ sim.data.iterations >= 2
    /\ sim.body[1].risk_distribution.low >= 1
    /\ sim.body[1].risk_distribution.critical >= 1

\* C4 as stated: a request with iterations <= 0 or an inverted range fails,
\* before any sample is drawn or any statistic is computed, with no result.
C4_InvalidRequestRejected ==
    (/\ sim.called
     /\ \/ sim.data.iterations <= 0
        \/ RLt(sim.data.tef_max, sim.data.tef_min)
        \/ RLt(sim.data.vuln_max, sim.data.vuln_min)
        \/ RLt(sim.data.loss_max, sim.data.loss_min))
    => (/\ sim.status # 200
        /\ sim.body = <<>>
        /\ sim.raised_at # "statistics"
        /\ rng.pos = 0)

\* C6: in every returned simulation
\* min_ale <= 10th <= 25th <= 50th <= 75th <= 90th <= 95th <= 99th <= max_ale.
C6_PercentilesOrdered ==
    sim.status = 200 =>
        LET r == sim.body[1]
            p == r.percentiles
            c == <<r.min_ale, p["10th"], p["25th"], p["50th"], p["75th"],
                   p["90th"], p["95th"], p["99th"], r.max_ale>>
        IN  \A i \in 1..(Len(c) - 1) : c[i][1] * c[i + 1][2] <= c[i + 1][1] * c[i][2]

\* C6 witness: a returned simulation whose median lies strictly between its
\* minimum and its maximum
C6_Witness ==
    /\ sim.status = 200
    /\ RLt(sim.body[1].min_ale, sim.body[1].percentiles["50th"])
    /\ RLt(sim.body[1].percentiles["50th"], sim.body[1].max_ale)

\* C7: when every range has min = max, mean, median, min and max all equal
\* tef x vuln x loss, std_dev is 0 and all N samples are in the bucket of
\* that value.
C7_DegenerateRanges ==
    (/\ sim.status = 200
     /\ sim.data.tef_min = sim.data.tef_max
     /\ sim.data.vuln_min = sim.data.vuln_max
     /\ sim.data.loss_min = sim.data.loss_max)
    => LET r == sim.body[1]
           n == sim.data.iterations
           x == RMul(RMul(sim.data.tef_min, sim.data.vuln_min), sim.data.loss_min)
           l == LevelOfInterval(x).level
       IN  /\ r.mean_ale = x /\ r.median_ale = x
           /\ r.min_ale = x /\ r.max_ale = x
           /\ r.std_dev = Zero
           /\ r.risk_distribution =
                [low      |-> IF l = "Low" THEN n ELSE 0,
                 medium   |-> IF l = "Medium" THEN n ELSE 0,
                 high     |-> IF l = "High" THEN n ELSE 0,
                 critical |-> IF l = "Critical" THEN n ELSE 0]

\* C7 witness: (5,5), (0.5,0.5), (20000,20000) with two or more iterations
\* returned a mean of 50,000 with every sample High
C7_Witness ==
    /\ sim.status = 200
    /\ sim.data.iterations >= 2
    /\ sim.data.tef_min = Num(5) /\ sim.data.tef_max = Num(5)
    /\ sim.data.vuln_min = sim.data.vuln_max
    /\ sim.data.loss_min = sim.data.loss_max
    /\ sim.body[1].mean_ale = Num(50000)
    /\ sim.body[1].risk_distribution.high = sim.data.iterations

\* C8 as stated: two calls with the same arguments (the call takes no seed,
\* so with the same seed argument too) return identical results.
C8_SameArgumentsSameResult ==
    \A t1, t2 \in Threads :
        (/\ thr[t1].pc = "done" /\ thr[t2].pc = "done"
         /\ thr[t1].data = thr[t2].data)
        => thr[t1].body = thr[t2].body

\* C9 as stated: a call that ran concurrently with another returns what it
\* would have returned running alone from the generator state it started in.
C9_ResultAsIfAlone ==
    \A t \in Threads :
        thr[t].pc = "done" =>
            thr[t].body = run_monte_carlo([rng EXCEPT !.pos = thr[t].start],
                                          thr[t].data).body

====
